---- MODULE Spec2Model ----
(***************************************************************************)
(* Model of src/scrapers/fetch_shopify_product_data.py: the main loop over *)
(* STORE_DOMAINS, construct_url, the pagination loop of fetch_products,    *)
(* flatten_data and save_to_csv.                                           *)
(*                                                                         *)
(* Strings are sequences of tokens (a word such as "example.com" or one of *)
(* the delimiters ":", "/", "?", "#").  A nullable value is a sequence of  *)
(* length at most one: <<>> is None, <<v>> is v.  Delays are in tenths of  *)
(* a second.                                                               *)
(***************************************************************************)
EXTENDS Integers, Sequences, FiniteSets, TLC

VARIABLES
    domains,    \* STORE_DOMAINS: the configured list of domain strings
    remote,     \* for each domain, the remote's answer to page 1, 2, ...
    disk,       \* for each domain, how the write of its batch goes
    file,       \* CSV_FILENAME on disk: [exists, lines]
    file0,      \* the file as it was when the program started
    di,         \* index in STORE_DOMAINS of the domain of the for loop
    pc,         \* position of the program
    url,        \* main's url (nullable)
    page,       \* fetch_products: page
    products,   \* fetch_products: products, then main's products_data
    flattened,  \* main's flattened
    trace,      \* the HTTP requests issued and time.sleep calls made, in order
    log         \* the log lines written at most once per domain, in order

vars == <<domains, remote, disk, file, file0, di, pc, url, page, products, flattened, trace, log>>

----------------------------------------------------------------------------
(* Bounds of the model *)

MaxPage == 3
MaxDomains == 2
MaxCut == 1

(* Program constants *)

limit == 250
PAGE_DELAY == 15
DOMAIN_DELAY == 20

----------------------------------------------------------------------------
(* Generic helpers *)

None == <<>>
Some(v) == <<v>>

Min(a, b) == IF a < b THEN a ELSE b

Last(s) == s[Len(s)]

\* index of the first element of s at or after position from that is in set,
\* Len(s) + 1 when there is none
FindFirst(s, from, set) ==
    LET hits == {i \in from..Len(s) : s[i] \in set}
    IN  IF hits = {} THEN Len(s) + 1 ELSE CHOOSE i \in hits : \A j \in hits : i <= j

\* sep.join(items)
Join(items, sep) ==
    [k \in 1..(IF items = <<>> THEN 0 ELSE 2 * Len(items) - 1) |->
        IF k % 2 = 1 THEN items[(k + 1) \div 2] ELSE sep]

----------------------------------------------------------------------------
(* urllib.parse as construct_url uses it *)

Words == {"https", "http", "example.com", "shop"}

\* urlsplit: a scheme is a non-empty run of scheme characters, starting with a
\* letter, in front of the first ":"
SplitScheme(s) ==
    LET i == FindFirst(s, 1, {":"})
    IN  IF i <= Len(s) /\ i > 1 /\ \A k \in 1..(i - 1) : s[k] \in Words
        THEN [scheme |-> SubSeq(s, 1, i - 1), rest |-> SubSeq(s, i + 1, Len(s))]
        ELSE [scheme |-> <<>>, rest |-> s]

\* urlsplit's _splitnetloc: after a leading "//", the netloc runs to the first
\* of "/", "?", "#"
SplitNetloc(s) ==
    IF Len(s) >= 2 /\ s[1] = "/" /\ s[2] = "/"
    THEN LET delim == FindFirst(s, 3, {"/", "?", "#"})
         IN  [netloc |-> SubSeq(s, 3, delim - 1), rest |-> SubSeq(s, delim, Len(s))]
    ELSE [netloc |-> <<>>, rest |-> s]

urlparse(s) ==
    LET sc == SplitScheme(s)
        nl == SplitNetloc(sc.rest)
        h  == FindFirst(nl.rest, 1, {"#"})
        nofrag == SubSeq(nl.rest, 1, h - 1)
        q  == FindFirst(nofrag, 1, {"?"})
    IN  [scheme   |-> sc.scheme,
         netloc   |-> nl.netloc,
         path     |-> SubSeq(nofrag, 1, q - 1),
         query    |-> SubSeq(nofrag, q + 1, Len(nofrag)),
         fragment |-> SubSeq(nl.rest, h + 1, Len(nl.rest))]

\* urlunparse((scheme, netloc, path, "", "", "")) for a path starting with "/"
urlunparse(scheme, netloc, path) ==
    scheme \o <<":">> \o <<"/", "/">> \o netloc \o path

PRODUCTS_PATH == <<"/", "products.json">>

\* what construct_url hands to urlparse
ParseInput(domain) == <<"/", "/">> \o domain

construct_url(domain) ==
    LET parsed == urlparse(ParseInput(domain))
        scheme == IF parsed.scheme = <<>> THEN <<"https">> ELSE parsed.scheme
        netloc == IF parsed.netloc # <<>> THEN parsed.netloc ELSE parsed.path
    IN  IF netloc = <<>> THEN None
        ELSE Some(urlunparse(scheme, netloc, PRODUCTS_PATH))

----------------------------------------------------------------------------
(* JSON as the program reads it.  A key of a JSON object is <<"missing">>,  *)
(* <<"null">> or <<"val", v>>.                                             *)

Missing == <<"missing">>
Null == <<"null">>
Val(v) == <<"val", v>>

\* dict.get(key): None for a missing key and for a null value
Get(field) == IF field[1] = "val" THEN Some(field[2]) ELSE None

\* dict.get(key, default): the default only for a missing key
GetDefault(field, default) == IF field[1] = "missing" THEN Val(default) ELSE field

\* Python truth of a key holding a list, and of a key holding a string
TruthyList(field) == field[1] = "val" /\ field[2] # <<>>
TruthyStr(field) == field[1] = "val" /\ field[2] # ""

IsDict(x) == x[1] = "dict"
Dict(fields) == <<"dict", fields>>
NotADict == <<"str">>

CSV_HEADERS ==
    <<"store_domain", "product_id", "title", "handle", "vendor", "product_type",
      "created_at", "updated_at", "published_at", "tags", "body_html",
      "variant_id", "variant_title", "sku", "price", "compare_at_price",
      "available", "variant_created_at", "variant_updated_at",
      "image_src", "all_image_srcs">>

VARIANT_FIELDS ==
    {"variant_id", "variant_title", "sku", "price", "compare_at_price",
     "available", "variant_created_at", "variant_updated_at"}

----------------------------------------------------------------------------
(* flatten_data *)

\* line 127: first_image_src
FirstImageRaises(product) ==
    TruthyList(product.images) /\ ~IsDict(product.images[2][1])

first_image_src(product) ==
    IF TruthyList(product.images) THEN Get(product.images[2][1][2].src) ELSE None

\* line 128: all_image_srcs
AllImagesRaises(product) ==
    LET images == GetDefault(product.images, <<>>)
    IN  \/ images[1] = "null"
        \/ \E i \in 1..Len(images[2]) : ~IsDict(images[2][i])

KeptSrcs(images) ==
    LET kept == {i \in 1..Len(images) : TruthyStr(images[i][2].src)}
        nth(k) == CHOOSE i \in kept : Cardinality({j \in kept : j <= i}) = k
    IN  [k \in 1..Cardinality(kept) |-> images[nth(k)][2].src[2]]

all_image_srcs(product) ==
    Join(KeptSrcs(GetDefault(product.images, <<>>)[2]), "|")

\* ', '.join(product.get('tags', []))
TagsRaise(product) == GetDefault(product.tags, <<>>)[1] = "null"

tags_joined(product) == Join(GetDefault(product.tags, <<>>)[2], ", ")

\* line 130: not product.get('variants')
HasNoVariants(product) == ~TruthyList(product.variants)

VariantsRaise(product) ==
    /\ ~HasNoVariants(product)
    /\ \E k \in 1..Len(product.variants[2]) : ~IsDict(product.variants[2][k])

\* the keys every row takes from the product
ProductPart(product, store_domain) ==
    [store_domain   |-> store_domain,
     product_id     |-> Get(product.id),
     title          |-> Get(product.title),
     handle         |-> Get(product.handle),
     vendor         |-> Get(product.vendor),
     product_type   |-> Get(product.product_type),
     created_at     |-> Get(product.created_at),
     updated_at     |-> Get(product.updated_at),
     published_at   |-> Get(product.published_at),
     tags           |-> tags_joined(product),
     body_html      |-> Get(product.body_html),
     image_src      |-> first_image_src(product),
     all_image_srcs |-> all_image_srcs(product)]

\* lines 144-151: the variant keys of the row of a product without variants
NoVariantPart ==
    [variant_id |-> None, variant_title |-> None, sku |-> None, price |-> None,
     compare_at_price |-> None, available |-> None,
     variant_created_at |-> None, variant_updated_at |-> None]

\* lines 171-178: the variant keys of the row of one variant
VariantPart(variant) ==
    [variant_id         |-> Get(variant.id),
     variant_title      |-> Get(variant.title),
     sku                |-> Get(variant.sku),
     price              |-> Get(variant.price),
     compare_at_price   |-> Get(variant.compare_at_price),
     available          |-> Get(variant.available),
     variant_created_at |-> Get(variant.created_at),
     variant_updated_at |-> Get(variant.updated_at)]

MakeRow(productPart, variantPart) ==
    [k \in (DOMAIN productPart) \cup (DOMAIN variantPart) |->
        IF k \in DOMAIN productPart THEN productPart[k] ELSE variantPart[k]]

\* whether the loop body of flatten_data raises on this product
ProductRaises(product) ==
    \/ FirstImageRaises(product)
    \/ AllImagesRaises(product)
    \/ TagsRaise(product)
    \/ VariantsRaise(product)

\* the rows the loop body appends for one product
ProductRows(product, store_domain) ==
    LET pp == ProductPart(product, store_domain)
    IN  IF HasNoVariants(product)
        THEN <<MakeRow(pp, NoVariantPart)>>
        ELSE [k \in 1..Len(product.variants[2]) |->
                 MakeRow(pp, VariantPart(product.variants[2][k][2]))]

\* the rows of all_products_data[lo..hi], in order
RECURSIVE RowsOf(_, _, _, _)
RowsOf(all_products_data, store_domain, lo, hi) ==
    IF lo > hi THEN <<>>
    ELSE IF lo = hi THEN ProductRows(all_products_data[lo], store_domain)
    ELSE LET mid == (lo + hi) \div 2
         IN  RowsOf(all_products_data, store_domain, lo, mid)
                 \o RowsOf(all_products_data, store_domain, mid + 1, hi)

\* flatten_data: an exception raised by any product leaves no rows
flatten_data(all_products_data, store_domain) ==
    IF \E i \in 1..Len(all_products_data) : ProductRaises(all_products_data[i])
    THEN [raised |-> TRUE, rows |-> <<>>]
    ELSE [raised |-> FALSE,
          rows |-> RowsOf(all_products_data, store_domain, 1, Len(all_products_data))]

----------------------------------------------------------------------------
(* save_to_csv *)

HeaderLine == <<"header", CSV_HEADERS>>
RowLine(row) == <<"row", row>>
TornLine == <<"torn">>

\* the file opened with mode 'w' instead
Opened_Truncating(f) == [exists |-> TRUE, lines |-> <<>>]

\* line 190: open(filename, 'a') creates the file or keeps what it holds
Opened(f) == [exists |-> TRUE, lines |-> f.lines]

\* the size test left out
NeedsHeader_NewFileOnly(f) == ~f.exists

\* line 192: not file_exists or os.path.getsize(filename) == 0, file_exists
\* being read before the file is opened and the size after
NeedsHeader(f) == ~f.exists \/ Opened(f).lines = <<>>

\* what writeheader and writerows put out, in order
CsvOutput(f, data) ==
    (IF NeedsHeader(f) THEN <<HeaderLine>> ELSE <<>>)
        \o [k \in 1..Len(data) |-> RowLine(data[k])]

\* the file after a call in which everything was written
SavedFile(f, data) ==
    [exists |-> TRUE, lines |-> Opened(f).lines \o CsvOutput(f, data)]

\* the file after a call in which open succeeded and a write failed after cut
\* whole lines, the failing write leaving part of a line (torn) or nothing
PartlySavedFile(f, data, cut, torn) ==
    [exists |-> TRUE,
     lines  |-> Opened(f).lines \o SubSeq(CsvOutput(f, data), 1, cut)
                        \o (IF torn THEN <<TornLine>> ELSE <<>>)]

\* how a call of save_to_csv goes: everything is written ("ok"), open raises
\* ("open"), or a write raises after cut whole lines ("write")
SaveOk == [kind |-> "ok", cut |-> 0, torn |-> FALSE]
OpenFails == [kind |-> "open", cut |-> 0, torn |-> FALSE]
WriteFails(cut, torn) == [kind |-> "write", cut |-> cut, torn |-> torn]

SaveOutcomes ==
    {SaveOk, OpenFails} \cup {WriteFails(c, t) : c \in 0..MaxCut, t \in BOOLEAN}

\* a failing write leaves at least the last line unwritten
CutOf(outcome, f, data) == Min(outcome.cut, Len(CsvOutput(f, data)) - 1)

----------------------------------------------------------------------------
(* The remote endpoint: what response.json() and requests.get can give *)

Image(src) == Dict([src |-> src])

Variant(id, price) ==
    Dict([id |-> Val(id), title |-> Val("M"), sku |-> Val("sku"), price |-> Val(price),
          compare_at_price |-> Null, available |-> Val("true"),
          created_at |-> Val("t4"), updated_at |-> Missing])

FullProduct(id) ==
    [id |-> Val(id), title |-> Val("Shirt"), handle |-> Val("shirt"),
     vendor |-> Val("acme"), product_type |-> Val("apparel"),
     created_at |-> Val("t1"), updated_at |-> Val("t2"), published_at |-> Null,
     body_html |-> Val("<p>"),
     tags |-> Val(<<"a", "b">>),
     images |-> Val(<<Image(Val("i1")), Image(Val("i2"))>>),
     variants |-> Val(<<Variant(10 * id, "20.00"), Variant(10 * id + 1, "25.00")>>)]

Shapes == {"full", "bare", "sparse", "nulltags", "nullimages", "badimage"}

MakeProduct(shape, id) ==
    CASE shape = "full" -> FullProduct(id)
      [] shape = "bare" ->
            [FullProduct(id) EXCEPT !.tags = Missing, !.images = Missing,
                                    !.variants = Missing, !.body_html = Missing]
      [] shape = "sparse" ->
            [FullProduct(id) EXCEPT
                !.images = Val(<<Image(Missing), Image(Val("")), Image(Val("i3"))>>),
                !.variants = Null, !.tags = Val(<<>>)]
      [] shape = "nulltags" -> [FullProduct(id) EXCEPT !.tags = Null]
      [] shape = "nullimages" -> [FullProduct(id) EXCEPT !.images = Null]
      [] shape = "badimage" -> [FullProduct(id) EXCEPT !.images = Val(<<NotADict>>)]

\* a response: a JSON object with n products of one shape ("products"), with an
\* empty list ("empty"), without the key ("nokey"); a JSON value that is no
\* object ("nondict"); a body that is no JSON ("badjson"); a timeout, a
\* connection error or an error status ("transport")
ProductsResponse(n, shape) == [kind |-> "products", n |-> n, shape |-> shape]
OtherResponse(kind) == [kind |-> kind, n |-> 0, shape |-> "full"]

\* data["products"] of the response to page p
PageProducts(p, r) == [i \in 1..r.n |-> MakeProduct(r.shape, (p - 1) * limit + i)]

CountsShort == {1, limit - 1}
CountsFull == {limit, limit + 1}

ContinuingResponses == {ProductsResponse(n, "bare") : n \in CountsFull}

TerminatingResponses ==
    {ProductsResponse(n, sh) : n \in CountsShort, sh \in {"bare"}}
        \cup {ProductsResponse(1, sh) : sh \in Shapes}
        \cup {OtherResponse(k) : k \in {"empty", "nokey", "nondict", "badjson", "transport"}}

\* the scripts of at most maxLen pages: full pages, then one last response
RECURSIVE Scripts(_, _)
Scripts(maxLen, lasts) ==
    IF maxLen = 0 THEN {}
    ELSE {<<t>> : t \in lasts}
            \cup {<<c>> \o s : c \in ContinuingResponses, s \in Scripts(maxLen - 1, lasts)}

\* the response to page p of domain d: the last response of a script answers
\* every later page too
Response(d, p) == remote[d][Min(p, Len(remote[d]))]

----------------------------------------------------------------------------
(* Configurations: STORE_DOMAINS, the remote's answers, the file at start *)

MaxDomainLen == 2

Tokens == {"example.com", "https", ":", "/", "?", "#"}

RECURSIVE Strings(_)
Strings(n) ==
    IF n = 0 THEN {<<>>}
    ELSE Strings(n - 1) \cup {Append(s, t) : s \in Strings(n - 1), t \in Tokens}

Bare == <<"example.com">>
WithScheme(scheme) == <<scheme, ":", "/", "/", "example.com">>

DomainInputs ==
    Strings(MaxDomainLen)
        \cup {WithScheme("https"), WithScheme("http"),
              <<"example.com", "/", "shop", "?", "shop", "#", "shop">>,
              <<"example.com", ":", "shop">>}

FileAbsent == [exists |-> FALSE, lines |-> <<>>]
FileEmpty == [exists |-> TRUE, lines |-> <<>>]
EarlierRow == ProductRows(MakeProduct("bare", 1), <<"shop">>)[1]
FileOfEarlierRun == [exists |-> TRUE, lines |-> <<HeaderLine, RowLine(EarlierRow)>>]
FileWithoutHeader == [exists |-> TRUE, lines |-> <<RowLine(EarlierRow)>>]
Files == {FileAbsent, FileEmpty, FileOfEarlierRun, FileWithoutHeader}

Config(ds, rs, ws, f) == [domains |-> ds, remote |-> rs, disk |-> ws, file |-> f]

OnePage(r) == <<r>>

\* one store, every course of the pagination up to MaxPage pages
PaginationConfigs ==
    {Config(<<Bare>>, <<s>>, <<SaveOk>>, FileAbsent) :
        s \in Scripts(MaxPage, TerminatingResponses)}

\* one store, every domain string
UrlConfigs ==
    {Config(<<d>>, <<OnePage(ProductsResponse(1, "bare"))>>, <<SaveOk>>, FileAbsent) :
        d \in DomainInputs}

\* several stores, each with one of a few courses
Store(d, s) == [domain |-> d, script |-> s]

RunStores ==
    {Store(Bare, s) : s \in {OnePage(ProductsResponse(1, "full")),
                             OnePage(ProductsResponse(1, "nulltags")),
                             OnePage(OtherResponse("transport")),
                             <<ProductsResponse(limit, "bare"), OtherResponse("empty")>>}}
        \cup {Store(<<>>, OnePage(OtherResponse("transport")))}

RunConfigs ==
    UNION {{Config([i \in 1..k |-> st[i].domain], [i \in 1..k |-> st[i].script],
                   [i \in 1..k |-> SaveOk], FileAbsent) :
                st \in [1..k -> RunStores]} : k \in 2..MaxDomains}

\* several stores of one product, every file and every course of the writes
SaveConfigs ==
    UNION {{Config([i \in 1..k |-> Bare],
                   [i \in 1..k |-> OnePage(ProductsResponse(1, "full"))], ws, f) :
                ws \in [1..k -> SaveOutcomes], f \in Files} : k \in 2..MaxDomains}

Configs == PaginationConfigs \cup UrlConfigs \cup RunConfigs \cup SaveConfigs

\* a store that answers every page with a full page, alone or before another
EndlessScript == OnePage(ProductsResponse(limit, "bare"))

EndlessConfigs ==
    {Config(<<Bare>>, <<EndlessScript>>, <<SaveOk>>, FileAbsent),
     Config(<<Bare, Bare>>, <<EndlessScript, OnePage(ProductsResponse(1, "full"))>>,
            <<SaveOk, SaveOk>>, FileAbsent),
     Config(<<Bare, Bare>>, <<OnePage(ProductsResponse(1, "full")), EndlessScript>>,
            <<SaveOk, SaveOk>>, FileAbsent)}

\* the stores with one page of at most one product, alone or after a domain
\* that cannot be parsed
OnePageConfigs ==
    {Config(<<Bare>>, <<OnePage(t)>>, <<w>>, f) :
        t \in {r \in TerminatingResponses : r.n <= 1},
        w \in SaveOutcomes,
        f \in {FileAbsent, FileOfEarlierRun}}
        \cup {Config(<<(<<>>), Bare>>,
                     <<OnePage(OtherResponse("transport")), OnePage(ProductsResponse(1, "full"))>>,
                     <<SaveOk, SaveOk>>, FileEmpty)}

----------------------------------------------------------------------------
(* The program *)

\* everything the model keeps of the requests and sleeps of a run
TraceCap == MaxDomains * 2 * MaxPage

Record(tr, event) == IF Len(tr) < TraceCap THEN Append(tr, event) ELSE tr

GetEvent(d, p) == <<"GET", d, p>>
SleepEvent(delay) == <<"sleep", delay>>

Logged(lg, line) == Append(lg, line)

InitWith(cfg) ==
    /\ domains = cfg.domains
    /\ remote = cfg.remote
    /\ disk = cfg.disk
    /\ file = cfg.file
    /\ file0 = cfg.file
    /\ di = 1
    /\ pc = "main"
    /\ url = None
    /\ page = 1
    /\ products = <<>>
    /\ flattened = <<>>
    /\ trace = <<>>
    /\ log = IF cfg.file.exists THEN <<(<<"warning", "file exists">>)>> ELSE <<>>

Init == \E cfg \in Configs : InitWith(cfg)

\* lines 214-218: a domain construct_url cannot parse is skipped
MainConstructFails ==
    /\ pc = "main"
    /\ di <= Len(domains)
    /\ construct_url(domains[di]) = None
    /\ url' = None
    /\ log' = Logged(log, <<"error", "could not parse domain">>)
    /\ di' = di + 1
    /\ UNCHANGED <<domains, remote, disk, file, file0, pc, page, products, flattened, trace>>

\* lines 214-220 and 80-82: the call of fetch_products starts
MainConstructOk ==
    /\ pc = "main"
    /\ di <= Len(domains)
    /\ construct_url(domains[di]) # None
    /\ url' = construct_url(domains[di])
    /\ products' = <<>>
    /\ page' = 1
    /\ pc' = "request"
    /\ UNCHANGED <<domains, remote, disk, file, file0, di, flattened, trace, log>>

\* lines 84-91: the request for the page goes out
FetchRequest ==
    /\ pc = "request"
    /\ trace' = Record(trace, GetEvent(di, page))
    /\ pc' = "await"
    /\ UNCHANGED <<domains, remote, disk, file, file0, di, url, page, products, flattened, log>>

\* line 97
Extended(prods, more) == prods \o more

\* the comparison with <= instead
IsLastPage_Inclusive(n) == n <= limit

\* line 100
IsLastPage(n) == n < limit

\* a page skipped
NextPage_Skip(p) == p + 2

\* line 102
NextPage(p) == p + 1

\* the sleep left out
AfterPage_NoSleep(tr) == tr

\* line 108, reached after line 102 only
AfterPage(tr) == Record(tr, SleepEvent(PAGE_DELAY))

\* continue instead of break
AfterFetchError_Retry == "request"

\* lines 112, 116, 119: where the loop goes after an exception
AfterFetchError == "fetched"

\* lines 96-101: a page with products, fewer than limit
RespondLastPage ==
    /\ pc = "await"
    /\ LET r == Response(di, page)
       IN  /\ r.kind = "products"
           /\ r.n > 0
           /\ IsLastPage(r.n)
           /\ products' = Extended(products, PageProducts(page, r))
    /\ pc' = "fetched"
    /\ UNCHANGED <<domains, remote, disk, file, file0, di, url, page, flattened, trace, log>>

\* lines 96-102 and 108: a page with products, limit of them or more
RespondFullPage ==
    /\ pc = "await"
    /\ page < MaxPage
    /\ LET r == Response(di, page)
       IN  /\ r.kind = "products"
           /\ r.n > 0
           /\ ~IsLastPage(r.n)
           /\ products' = Extended(products, PageProducts(page, r))
    /\ page' = NextPage(page)
    /\ trace' = AfterPage(trace)
    /\ pc' = "request"
    /\ UNCHANGED <<domains, remote, disk, file, file0, di, url, flattened, log>>

\* lines 96-102 and 108 from page MaxPage on: the model keeps the counter at
\* MaxPage and the products of the pages before
RespondFullPageBeyond ==
    /\ pc = "await"
    /\ page = MaxPage
    /\ LET r == Response(di, page)
       IN  /\ r.kind = "products"
           /\ r.n > 0
           /\ ~IsLastPage(r.n)
    /\ trace' = AfterPage(trace)
    /\ pc' = "request"
    /\ UNCHANGED <<domains, remote, disk, file, file0, di, url, page, products, flattened, log>>

\* lines 103-105: no "products" key, or an empty list
RespondNoProducts ==
    /\ pc = "await"
    /\ Response(di, page).kind \in {"empty", "nokey"}
    /\ log' = Logged(log, <<"info", "no more products">>)
    /\ pc' = "fetched"
    /\ UNCHANGED <<domains, remote, disk, file, file0, di, url, page, products, flattened, trace>>

\* lines 110-112: requests.get or raise_for_status raises
RespondRequestException ==
    /\ pc = "await"
    /\ Response(di, page).kind = "transport"
    /\ log' = Logged(log, <<"error", "error fetching">>)
    /\ pc' = AfterFetchError
    /\ UNCHANGED <<domains, remote, disk, file, file0, di, url, page, products, flattened, trace>>

\* lines 113-116: response.json() raises
RespondJSONDecodeError ==
    /\ pc = "await"
    /\ Response(di, page).kind = "badjson"
    /\ log' = Logged(log, <<"error", "error decoding JSON">>)
    /\ pc' = AfterFetchError
    /\ UNCHANGED <<domains, remote, disk, file, file0, di, url, page, products, flattened, trace>>

\* lines 117-119: "products" in data raises on a JSON value that is no object
RespondOtherException ==
    /\ pc = "await"
    /\ Response(di, page).kind = "nondict"
    /\ log' = Logged(log, <<"error", "unexpected error">>)
    /\ pc' = AfterFetchError
    /\ UNCHANGED <<domains, remote, disk, file, file0, di, url, page, products, flattened, trace>>

\* line 233, and the for loop going on
NextDomain(tr) == Record(tr, SleepEvent(DOMAIN_DELAY))

\* lines 222, 229-233: fetch_products returned an empty list
MainNoProducts ==
    /\ pc = "fetched"
    /\ products = <<>>
    /\ log' = Logged(log, <<"warning", "no products retrieved">>)
    /\ trace' = NextDomain(trace)
    /\ di' = di + 1
    /\ pc' = "main"
    /\ UNCHANGED <<domains, remote, disk, file, file0, url, page, products, flattened>>

\* lines 222-224: flatten_data returns
MainFlatten ==
    /\ pc = "fetched"
    /\ products # <<>>
    /\ ~flatten_data(products, domains[di]).raised
    /\ flattened' = flatten_data(products, domains[di]).rows
    /\ pc' = "flattened"
    /\ UNCHANGED <<domains, remote, disk, file, file0, di, url, page, products, trace, log>>

\* line 224: flatten_data raises, and nothing in the main loop catches it
MainFlattenRaises ==
    /\ pc = "fetched"
    /\ products # <<>>
    /\ flatten_data(products, domains[di]).raised
    /\ pc' = "crashed"
    /\ UNCHANGED <<domains, remote, disk, file, file0, di, url, page, products, flattened, trace, log>>

\* lines 225-226 and 233: save_to_csv writes everything
MainSave ==
    /\ pc = "flattened"
    /\ flattened # <<>>
    /\ disk[di].kind = "ok"
    /\ file' = SavedFile(file, flattened)
    /\ log' = Logged(log, <<"info", "appended", Len(flattened)>>)
    /\ trace' = NextDomain(trace)
    /\ di' = di + 1
    /\ pc' = "main"
    /\ UNCHANGED <<domains, remote, disk, file0, url, page, products, flattened>>

\* lines 190, 196-199 and 233: open raises
MainSaveOpenFails ==
    /\ pc = "flattened"
    /\ flattened # <<>>
    /\ disk[di].kind = "open"
    /\ log' = Logged(log, <<"error", "error writing to CSV", "open">>)
    /\ trace' = NextDomain(trace)
    /\ di' = di + 1
    /\ pc' = "main"
    /\ UNCHANGED <<domains, remote, disk, file, file0, url, page, products, flattened>>

\* lines 191-199 and 233: a write raises
MainSaveWriteFails ==
    /\ pc = "flattened"
    /\ flattened # <<>>
    /\ disk[di].kind = "write"
    /\ file' = PartlySavedFile(file, flattened, CutOf(disk[di], file, flattened),
                               disk[di].torn)
    /\ log' = Logged(log, <<"error", "error writing to CSV", "write">>)
    /\ trace' = NextDomain(trace)
    /\ di' = di + 1
    /\ pc' = "main"
    /\ UNCHANGED <<domains, remote, disk, file0, url, page, products, flattened>>

\* line 235
MainDone ==
    /\ pc = "main"
    /\ di > Len(domains)
    /\ log' = Logged(log, <<"info", "data fetching complete">>)
    /\ pc' = "done"
    /\ UNCHANGED <<domains, remote, disk, file, file0, di, url, page, products, flattened, trace>>

Next ==
    \/ MainConstructFails
    \/ MainConstructOk
    \/ FetchRequest
    \/ RespondLastPage
    \/ RespondFullPage
    \/ RespondNoProducts
    \/ RespondRequestException
    \/ RespondJSONDecodeError
    \/ RespondOtherException
    \/ MainNoProducts
    \/ MainFlatten
    \/ MainFlattenRaises
    \/ MainSave
    \/ MainSaveOpenFails
    \/ MainSaveWriteFails
    \/ MainDone

Spec == Init /\ [][Next]_vars

\* the same program against remotes that may answer every page with a full one
LiveInit == \E cfg \in OnePageConfigs \cup EndlessConfigs : InitWith(cfg)

LiveNext == Next \/ RespondFullPageBeyond

\* the program is one thread that takes its next step whenever it has one
LiveSpec == LiveInit /\ [][LiveNext]_vars /\ WF_vars(LiveNext)

----------------------------------------------------------------------------
(* Vocabulary of the claims *)

InLoop == pc \in {"request", "await"}

\* the pages requested of domain d so far, in the order of the requests
GetPages(d) ==
    LET gets == SelectSeq(trace, LAMBDA e : e[1] = "GET" /\ e[2] = d)
    IN  [i \in 1..Len(gets) |-> gets[i][3]]

UpTo(k) == [i \in 1..k |-> i]

\* the processing of domain d is over
Finished(d) == d < di \/ (d = di /\ pc \in {"fetched", "flattened", "crashed"})

\* the products of pages 1..k of a script, in page order
RECURSIVE PagesTo(_, _)
PagesTo(script, k) ==
    IF k = 0 THEN <<>> ELSE PagesTo(script, k - 1) \o PageProducts(k, script[k])

RECURSIVE CountTo(_, _)
CountTo(script, k) == IF k = 0 THEN 0 ELSE CountTo(script, k - 1) + script[k].n

ErrorKinds == {"transport", "badjson", "nondict"}

IsPrefix(s, t) == Len(s) <= Len(t) /\ SubSeq(t, 1, Len(s)) = s

----------------------------------------------------------------------------
(* C1 *)

ClaimDomains == {Bare, WithScheme("https"), WithScheme("http"), <<>>}

\* the host of a domain string given bare or as scheme://host
HostOf(D) ==
    IF Len(D) >= 4 /\ SubSeq(D, 2, 4) = <<":", "/", "/">> THEN SubSeq(D, 5, Len(D)) ELSE D

ClaimedUrl(D) ==
    IF D = <<>> THEN None
    ELSE Some(<<"https", ":", "/", "/">> \o HostOf(D) \o <<"/", "products.json">>)

\* C1 (as claimed): for a domain given bare or with an http(s):// prefix,
\* construct_url returns exactly https://<host>/products.json, and None for
\* the empty string
C1_ConstructUrl ==
    [][(pc = "main" /\ di <= Len(domains) /\ domains[di] \in ClaimDomains)
            => url' = ClaimedUrl(domains[di])]_vars

----------------------------------------------------------------------------
(* C2 *)

\* pages 1..k-1 of the script hold exactly limit products and page k holds
\* between 1 and limit - 1
EndsWithShortPage(script, k) ==
    /\ k \in 1..Len(script)
    /\ \A j \in 1..(k - 1) : script[j].kind = "products" /\ script[j].n = limit
    /\ script[k].kind = "products" /\ script[k].n \in 1..(limit - 1)

\* C2: when pages 1..k-1 return exactly limit products and page k returns
\* between 1 and limit - 1, no page after k is ever requested, and
\* fetch_products returns after page k with the products of pages 1..k in page
\* order, as many as the pages held together
C2_ShortPageEndsLoop ==
    \A d \in 1..Len(domains) : \A k \in 1..Len(remote[d]) :
        EndsWithShortPage(remote[d], k) =>
            /\ \A i \in 1..Len(GetPages(d)) : GetPages(d)[i] <= k
            /\ (d = di /\ pc = "fetched") =>
                  /\ GetPages(d) = UpTo(k)
                  /\ Len(products) = CountTo(remote[d], k)
                  /\ products = PagesTo(remote[d], k)

C2_Witness ==
    /\ pc = "fetched"
    /\ EndsWithShortPage(remote[di], 3)
    /\ Len(products) = 2 * limit + remote[di][3].n

----------------------------------------------------------------------------
(* C3 *)

\* the fetch of page p of domain d raises
RaisesAt(d, p) == p = Len(remote[d]) /\ remote[d][p].kind \in ErrorKinds

\* C3: when the fetch of page p raises, page p is requested once and no page
\* after it, fetch_products returns the products of pages 1..p-1, and the
\* step that handles the exception ends in the caller, not in a crash
C3_ErrorEndsLoop ==
    /\ [](\A d \in 1..Len(domains) : \A p \in 1..Len(remote[d]) :
            RaisesAt(d, p) =>
                /\ IsPrefix(GetPages(d), UpTo(p))
                /\ Finished(d) /\ GetPages(d) # <<>> => GetPages(d) = UpTo(p)
                /\ (d = di /\ pc = "fetched") => products = PagesTo(remote[d], p - 1))
    /\ [][(pc = "await" /\ RaisesAt(di, page)) =>
            (pc' = "fetched" /\ products' = products /\ trace' = trace)]_vars

C3_Witness ==
    /\ pc = "fetched"
    /\ RaisesAt(di, 2)
    /\ Len(products) = limit
    /\ GetPages(di) = <<1, 2>>

----------------------------------------------------------------------------
(* C4 *)

\* the number of variants of a product: 0 for a missing, null or empty list
VariantCount(product) ==
    IF product.variants[1] = "val" THEN Len(product.variants[2]) ELSE 0

RowCount(product) == IF VariantCount(product) = 0 THEN 1 ELSE VariantCount(product)

\* RowsThrough(prods, lo, hi)[j]: the rows of products lo..lo+j-1 together
RECURSIVE RowsThrough(_, _, _)
RowsThrough(prods, lo, hi) ==
    IF lo > hi THEN <<>>
    ELSE IF lo = hi THEN <<RowCount(prods[lo])>>
    ELSE LET mid == (lo + hi) \div 2
             left == RowsThrough(prods, lo, mid)
             right == RowsThrough(prods, mid + 1, hi)
         IN  left \o [j \in 1..Len(right) |-> right[j] + Last(left)]

PRODUCT_FIELDS == {CSV_HEADERS[i] : i \in 1..Len(CSV_HEADERS)} \ VARIANT_FIELDS

\* the rows of product i are RowCount many, in variant order, agree on every
\* key that is no variant key, and hold the variants' ids, or nulls in all
\* eight variant keys when there is no variant
ShapeLaw(prods, rows, store_domain) ==
    LET through == RowsThrough(prods, 1, Len(prods))
    IN  /\ Len(rows) = Last(through)
        /\ \A i \in 1..Len(prods) :
              LET first == (IF i = 1 THEN 0 ELSE through[i - 1]) + 1
              IN  \A k \in 1..RowCount(prods[i]) :
                    LET row == rows[first + k - 1]
                    IN  /\ row.store_domain = store_domain
                        /\ row.product_id = Get(prods[i].id)
                        /\ \A f \in PRODUCT_FIELDS : row[f] = rows[first][f]
                        /\ IF VariantCount(prods[i]) = 0
                           THEN \A f \in VARIANT_FIELDS : row[f] = None
                           ELSE row.variant_id = Get(prods[i].variants[2][k][2].id)

\* C4 (as claimed): for every product list flatten_data is given, it returns
\* rows, max(1, variant count) per product, in product and variant order
C4_ShapeLaw ==
    [][(pc = "fetched" /\ products # <<>>) =>
            (pc' = "flattened" /\ ShapeLaw(products, flattened', domains[di]))]_vars

----------------------------------------------------------------------------
(* C5 *)

IsHeader(line) == line[1] = "header"

HeaderCount(lines) == Cardinality({i \in 1..Len(lines) : IsHeader(lines[i])})

SaveLines(lg) == SelectSeq(lg, LAMBDA l : Len(l) = 3)

SavesOk(lg) == \A i \in 1..Len(lg) : Len(lg[i]) = 3 => lg[i][2] = "appended"

\* the rows the saves of domains 1..d put out when every save succeeds
RECURSIVE BatchesTo(_)
BatchesTo(d) ==
    IF d = 0 THEN <<>>
    ELSE LET fetched == PagesTo(remote[d], Len(GetPages(d)))
             batch == IF construct_url(domains[d]) = None THEN <<>>
                      ELSE flatten_data(fetched, domains[d]).rows
         IN  BatchesTo(d - 1) \o [k \in 1..Len(batch) |-> RowLine(batch[k])]

\* C5: from a file that is absent or empty, after two or more successful
\* appends and no failed one, the file holds one header line, as its first
\* line, followed by the rows of the batches in the order of the appends
C5_HeaderOnce ==
    (/\ file0.lines = <<>>
     /\ SavesOk(log)
     /\ Len(SaveLines(log)) >= 2)
        => /\ HeaderCount(file.lines) = 1
           /\ IsHeader(file.lines[1])
           /\ Tail(file.lines) = BatchesTo(di - 1)

C5_Witness ==
    /\ pc = "done"
    /\ file0 = FileEmpty
    /\ SavesOk(log)
    /\ Len(SaveLines(log)) >= 2
    /\ Len(file.lines) = 5

----------------------------------------------------------------------------
(* C6 *)

\* C6 (as claimed): no failure while handling a domain ends the run
C6_FailureIsolation == pc # "crashed"

----------------------------------------------------------------------------
(* C7 *)

\* C7 (as claimed): the pagination loop of every domain eventually terminates,
\* whatever the remote answers
C7_LoopTerminates == [](InLoop => <>(~InLoop))

----------------------------------------------------------------------------
(* C8 *)

IsGet(e) == e[1] = "GET"

\* a request is followed by a pause before the next request: PAGE_DELAY before
\* the next page of the domain, DOMAIN_DELAY before the first page of another
PausedRequests ==
    \A i \in 1..(Len(trace) - 1) :
        IsGet(trace[i]) =>
            /\ ~IsGet(trace[i + 1])
            /\ i + 2 <= Len(trace) /\ IsGet(trace[i + 2]) =>
                  trace[i + 1] = SleepEvent(IF trace[i + 2][2] = trace[i][2]
                                            THEN PAGE_DELAY ELSE DOMAIN_DELAY)

\* C8 (as claimed): requests are separated by pauses, and the loop never goes
\* on to the next domain without the pause of DOMAIN_DELAY
C8_Pacing ==
    /\ []PausedRequests
    /\ [][di' # di => trace' = Append(trace, SleepEvent(DOMAIN_DELAY))]_vars

\* C8 (amended): requests are separated by pauses, and the loop goes on to the
\* next domain after the pause of DOMAIN_DELAY, except from a domain whose URL
\* could not be constructed, which it leaves without a pause
C8_PacingAmended ==
    /\ []PausedRequests
    /\ [][di' # di =>
            IF url' = None THEN trace' = trace
            ELSE trace' = Append(trace, SleepEvent(DOMAIN_DELAY))]_vars

C8_Witness ==
    /\ pc = "done"
    /\ \E i \in 1..Len(trace) : trace[i] = SleepEvent(PAGE_DELAY)
    /\ \E i \in 1..Len(trace) : trace[i] = GetEvent(2, 1)
    /\ Len(SelectSeq(trace, LAMBDA e : e = SleepEvent(DOMAIN_DELAY))) = 2

----------------------------------------------------------------------------
(* C9 *)

\* a step in which save_to_csv logs a failure
SaveFails == pc = "flattened" /\ Len(log') = Len(log) + 1 /\ Last(log')[1] = "error"

\* what a call puts out when nothing fails
WholeOutput ==
    (IF file.lines = <<>> THEN <<HeaderLine>> ELSE <<>>)
        \o [k \in 1..Len(flattened) |-> RowLine(flattened[k])]

WithoutTorn(lines) ==
    IF lines # <<>> /\ Last(lines) = TornLine THEN SubSeq(lines, 1, Len(lines) - 1)
    ELSE lines

\* C9 (as claimed): a failed save leaves the file as it was, and the loop goes
\* on to the next domain
C9_FailedSaveDropsBatch ==
    [][SaveFails => (file'.lines = file.lines /\ pc' = "main" /\ di' = di + 1)]_vars

\* C9 (amended): a failed save leaves what the file held, followed by a prefix
\* of the header and rows of the call and possibly a partial line; the loop
\* goes on to the next domain
C9_FailedSaveKeepsPrefix ==
    [][SaveFails =>
        /\ pc' = "main" /\ di' = di + 1
        /\ IsPrefix(file.lines, file'.lines)
        /\ IsPrefix(WithoutTorn(SubSeq(file'.lines, Len(file.lines) + 1, Len(file'.lines))),
                    WholeOutput)]_vars

C9_Witness ==
    /\ pc = "main"
    /\ di = 2 /\ di <= Len(domains)
    /\ Last(log) = <<"error", "error writing to CSV", "write">>
    /\ Len(file.lines) = Len(file0.lines) + 2
    /\ file0.lines # <<>>

----------------------------------------------------------------------------
(* C10 *)

\* the pages requested of each domain are 1, 2, ... in order, each once
ConsecutivePages == \A d \in 1..Len(domains) : GetPages(d) = UpTo(Len(GetPages(d)))

\* page p + 1 is requested exactly when page p Holds(n) products
NextPageIff(Holds(_)) ==
    \A d \in 1..Len(domains) : \A p \in 1..Len(GetPages(d)) :
        LET r == Response(d, p)
        IN  /\ p < Len(GetPages(d)) => (r.kind = "products" /\ Holds(r.n))
            /\ (Finished(d) /\ r.kind = "products" /\ Holds(r.n)) => p < Len(GetPages(d))

\* a response without products ends the loop with what was accumulated, and
\* no error is logged
NoProductsEndsLoop ==
    (pc = "fetched" /\ Response(di, page).kind \in {"empty", "nokey"}) =>
        /\ products = PagesTo(remote[di], page - 1)
        /\ Last(log) = <<"info", "no more products">>

ExactlyLimit(n) == n = limit
AtLeastLimit(n) == n >= limit

\* C10 (as claimed): pages are requested in order, page p + 1 exactly when page
\* p returned exactly limit products
C10_PageSequence ==
    ConsecutivePages /\ NextPageIff(ExactlyLimit) /\ NoProductsEndsLoop

\* C10 (amended): pages are requested in order, page p + 1 exactly when page p
\* returned limit products or more
C10_PageSequenceAmended ==
    ConsecutivePages /\ NextPageIff(AtLeastLimit) /\ NoProductsEndsLoop

C10_Witness ==
    /\ pc = "fetched"
    /\ GetPages(di) = <<1, 2, 3>>
    /\ Response(di, 1).n = limit + 1
    /\ Response(di, 3).kind = "nokey"

====
